---- MODULE Spec2Model ----
(***************************************************************************)
(* Wallet ledger and generation accounting of the PixelForge worker.       *)
(*                                                                         *)
(* The repository holds two versions of the worker application:            *)
(*   - src/worker/index.ts: the handlers write the tables directly, one    *)
(*     statement per await;                                                *)
(*   - the application that follows the middleware in                      *)
(*     src/worker/middleware/security.ts: the generation handler goes      *)
(*     through DatabaseService (services/database.ts).                     *)
(* Both are modelled.  Every awaited D1 statement is one atomic step; the  *)
(* code between two awaits runs inside the step that precedes it, because  *)
(* a Worker isolate runs one request until its next await.                 *)
(*                                                                         *)
(* The middleware in front of the handlers is outside the model: CORS, the *)
(* request-schema validation (its schema is not in the source; requests    *)
(* carry a known resolution) and the per-colo rate limiter of index.ts     *)
(* (100 requests per window, more than a run of the model starts).         *)
(*                                                                         *)
(* Amounts are rupees.  Stripe's amount_total is in paise and the webhook  *)
(* divides it by 100; the sessions below carry multiples of 100 paise, so  *)
(* the division is exact.                                                  *)
(***************************************************************************)
EXTENDS Integers, Sequences, FiniteSets, TLC

\* ------------------------------------------------------------------ bounds

\* Total number of requests (generations and webhook deliveries) a run starts.
MaxRequests == 3

\* Request handlers that can be in flight at the same time.
Slots == {1, 2}

\* Largest productImages.length of the cost computations checked alone.
MaxImages == 3

\* Largest payment amount (rupees) of the bonus computations checked alone.
MaxAmount == 5100

\* Number of times the clock advances in the executions of the rate limiter.
MaxTicks == 3

\* Number of generation requests of the executions checked for progress.
MaxLiveRequests == 2

\* Largest magnitude of the amounts passed to updateWalletBalance alone.
MaxDelta == 3

\* ------------------------------------------------------- program constants

\* const rupeesCost = creditCost * 25
RupeesPerCredit == 25

\* const amount = session.amount_total / 100
PaisePerRupee == 100

Users == {"u1", "u2"}

\* RESOLUTIONS of the generator component: the values a request may carry.
Resolutions == {"1024x1024", "1920x1080", "1080x1920", "2560x1440", "3840x2160"}

\* The resolutions the requests of a run carry: rupee costs 50 and 75.
RequestResolutions == {"1920x1080", "2560x1440"}

\* productImages.length of a request
ImageCounts == 0 .. 2

\* c.env.STRIPE_WEBHOOK_SECRET: the environment schema requires min(1).
STRIPE_WEBHOOK_SECRET == <<"w", "h", "s", "e", "c">>

\* Values of the stripe-signature header.  NoHeader is an absent header
\* (undefined); <<>> is an empty one.
NoHeader == <<"undefined">>

SignatureHeaders ==
    { NoHeader,
      <<>>,
      <<"t", "=", "1">>,
      <<"v", "1">>,
      <<"t", "=", "1", ",", "v", "1", "=", "a">> }

\* Checkout sessions the payment processor reports.  Each is one payment:
\* its id, the user in its metadata and the amount paid (in paise).
Sessions ==
    { [id |-> "cs_1", user_id |-> "u1", amount_total |-> 10000],
      [id |-> "cs_2", user_id |-> "u2", amount_total |-> 100000] }

EventTypes == {"checkout.session.completed", "payment_intent.succeeded"}

\* const windowMs = 15 * 60 * 1000
windowMs == 15 * 60 * 1000

\* const maxAttempts = 10
maxAttempts == 10

\* ----------------------------------------------------------- pure functions

\* calculateCreditCost of @/shared/types: the resolution's credit weight;
\* the image count does not change it.
calculateCreditCost(resolution, imageCount) ==
    CASE resolution = "1024x1024" -> 1
      [] resolution = "1920x1080" -> 2
      [] resolution = "1080x1920" -> 2
      [] resolution = "2560x1440" -> 3
      [] resolution = "3840x2160" -> 5

\* String.prototype.includes
includes(s, sub) ==
    \E i \in 1 .. (Len(s) - Len(sub) + 1) : SubSeq(s, i, i + Len(sub) - 1) = sub

verifyStripeSignature(payload, signature, secret) ==
    includes(signature, <<"v", "1", "=">>) /\ Len(secret) > 0

\* Math.floor(amount / 25)
creditsFor(amount) == amount \div RupeesPerCredit

\* Mutant: the credits are charged as if they were rupees.
RupeesCostInCredits(creditCost) == creditCost

\* const rupeesCost = creditCost * 25
RupeesCost(creditCost) == creditCost * RupeesPerCredit

\* Mutant: the tiers start above their thresholds.
calculateBonusCreditsAbove(amount) ==
    IF amount > 5000 THEN 50
    ELSE IF amount > 2500 THEN 15
    ELSE IF amount > 1000 THEN 5
    ELSE 0

\* StripeService.calculateBonusCredits
calculateBonusCredits(amount) ==
    IF amount >= 5000 THEN 50
    ELSE IF amount >= 2500 THEN 15
    ELSE IF amount >= 1000 THEN 5
    ELSE 0

\* PAYMENT_PLANS of the payment modal; the first plan has no bonus field.
PAYMENT_PLANS ==
    { [amount |-> 500, credits |-> 20],
      [amount |-> 1000, credits |-> 40, bonus |-> 5],
      [amount |-> 2500, credits |-> 100, bonus |-> 15],
      [amount |-> 5000, credits |-> 200, bonus |-> 50] }

\* The bonus the modal shows for a plan: plan.bonus || 0
ShownBonus(plan) == IF "bonus" \in DOMAIN plan THEN plan.bonus ELSE 0

\* ------------------------------------------------------------------- state

VARIABLES
    wallet_balance,       \* users.wallet_balance, by user id
    wallet_transactions,  \* the wallet_transactions rows, in creation order
    credit_usage,         \* the credit_usage rows
    generated_images,     \* the generated_images rows
    user_activities,      \* the user_activities rows
    req,                  \* each handler's position and local variables
    response,             \* the response the last step returned, if any
    started,              \* number of requests started so far
    attempts,             \* rateLimitByUser's Map: user id -> {count, resetTime}
    now,                  \* Date.now(), in ms
    admitted              \* history: per user, the start of the last window
                          \* and the number of requests let through in it

tables == <<wallet_balance, wallet_transactions, credit_usage,
            generated_images, user_activities>>

\* The state of the rate limiter.
limiter == <<attempts, now, admitted>>

vars == <<wallet_balance, wallet_transactions, credit_usage,
          generated_images, user_activities, req, response, started,
          attempts, now, admitted>>

Idle == [pc |-> "idle"]

\* A handler that has returned: c.json(body, status).  Every body field is
\* present; the ones a response does not carry keep their default.  event is
\* a history field: the type of the event a webhook delivery carried, when
\* the handler parsed it.
Response(kind, user, status, error) ==
    [kind |-> kind, user |-> user, status |-> status,
     error |-> error, required |-> 0, current |-> 0, id |-> 0,
     imageUrl |-> "", creditsUsed |-> 0, newBalance |-> 0,
     received |-> FALSE, signature |-> <<>>, event |-> ""]

\* No handler returned in the last step.
NoResponse == Response("none", "", 0, "")

Free(r) == req[r].pc = "idle"

\* A new request is handled in the first free slot.
Accepts(r) == Free(r) /\ \A s \in Slots : s < r => ~Free(s)

\* Handler r returns resp.
Return(r, resp) ==
    /\ req' = [req EXCEPT ![r] = Idle]
    /\ response' = resp
    /\ UNCHANGED limiter

\* The user's rows of the ledger, in creation order.
RowsOf(user, rows) == SelectSeq(rows, LAMBDA row : row.user_id = user)

\* const attempts = new Map(): no user has a record, and none was let through.
LimiterInit ==
    /\ attempts = [u \in {} |-> 0]
    /\ now = 0
    /\ admitted = [u \in {} |-> 0]

\* No request is in flight.
Quiet == \A s \in Slots : Free(s)

\* Both users have signed in (GET /api/users/me inserted their row with
\* wallet_balance 0) and nothing else has happened.
Init ==
    /\ wallet_balance = [u \in Users |-> 0]
    /\ wallet_transactions = <<>>
    /\ credit_usage = {}
    /\ generated_images = {}
    /\ user_activities = {}
    /\ req = [r \in Slots |-> Idle]
    /\ response = NoResponse
    /\ started = 0
    /\ LimiterInit

\* ------------------------------------------ POST /api/generate (index.ts)

\* Handler r goes on with the local variables rec.
Continue(r, rec) ==
    /\ req' = [req EXCEPT ![r] = rec]
    /\ response' = NoResponse
    /\ UNCHANGED limiter

\* Mutant: the debit subtracts the credits, not the rupees.
DebitedBalanceInCredits(currentBalance, rupeesCost) ==
    currentBalance - rupeesCost \div RupeesPerCredit

\* const newBalance = currentBalance - rupeesCost
DebitedBalance(currentBalance, rupeesCost) == currentBalance - rupeesCost

\* Mutant: the balance is compared with the cost in credits.
InsufficientInCredits(currentBalance, rupeesCost) ==
    currentBalance < rupeesCost \div RupeesPerCredit

\* if (currentBalance < rupeesCost) return 400
Insufficient(currentBalance, rupeesCost) == currentBalance < rupeesCost

\* Mutant: the test is for a length below zero.
NoProductImagesBelowZero(length) == length < 0

\* if (!productImages || productImages.length === 0) return 400
NoProductImages(length) == length = 0

\* Entry: authentication, the product-image check and the cost.
\* rowsBefore is a history field: the user's ledger rows at this point; no
\* numbers the request; images is productImages.length.
GenerateReceive(r) ==
    /\ Accepts(r)
    /\ started < MaxRequests
    /\ started' = started + 1
    /\ \E user \in Users, resolution \in RequestResolutions, n \in ImageCounts :
         IF NoProductImages(n)
         THEN Return(r, Response("generate", user, 400,
                                 "At least one product image is required"))
         ELSE LET creditCost == calculateCreditCost(resolution, n) IN
              Continue(r,
                [pc |-> "select", kind |-> "generate", user |-> user,
                 images |-> n,
                 resolution |-> resolution, creditCost |-> creditCost,
                 rupeesCost |-> RupeesCost(creditCost),
                 rowsBefore |-> Len(RowsOf(user, wallet_transactions)),
                 no |-> started + 1])
    /\ UNCHANGED tables

\* Mutant: the balance is written right after the balance check, before the
\* provider is called.
GenerateSelectDebiting(r) ==
    /\ req[r].pc = "select"
    /\ req[r].kind = "generate"
    /\ LET currentBalance == wallet_balance[req[r].user] IN
       IF Insufficient(currentBalance, req[r].rupeesCost)
       THEN /\ Return(r, [Response("generate", req[r].user, 400,
                                   "Insufficient wallet balance")
                            EXCEPT !.required = req[r].rupeesCost,
                                   !.current = currentBalance])
            /\ UNCHANGED wallet_balance
       ELSE /\ Continue(r,
                 [pc |-> "provider", kind |-> "generate",
                  user |-> req[r].user,
                  resolution |-> req[r].resolution,
                  creditCost |-> req[r].creditCost,
                  rupeesCost |-> req[r].rupeesCost,
                  rowsBefore |-> req[r].rowsBefore, no |-> req[r].no,
                  currentBalance |-> currentBalance])
            /\ wallet_balance' =
                 [wallet_balance EXCEPT ![req[r].user] =
                    DebitedBalance(currentBalance, req[r].rupeesCost)]
    /\ UNCHANGED <<wallet_transactions, credit_usage, generated_images,
                   user_activities, started>>

\* SELECT wallet_balance FROM users WHERE id = ?, and the balance check.
GenerateSelect(r) ==
    /\ req[r].pc = "select"
    /\ req[r].kind = "generate"
    /\ LET currentBalance == wallet_balance[req[r].user] IN
       IF Insufficient(currentBalance, req[r].rupeesCost)
       THEN Return(r, [Response("generate", req[r].user, 400,
                                "Insufficient wallet balance")
                         EXCEPT !.required = req[r].rupeesCost,
                                !.current = currentBalance])
       ELSE Continue(r,
              [pc |-> "provider", kind |-> "generate", user |-> req[r].user,
               resolution |-> req[r].resolution,
               creditCost |-> req[r].creditCost,
               rupeesCost |-> req[r].rupeesCost,
               rowsBefore |-> req[r].rowsBefore, no |-> req[r].no,
               currentBalance |-> currentBalance])
    /\ UNCHANGED <<tables, started>>

\* What generateImageWithGoogle returns: the URL of the image stored in R2
\* when the provider answered, and the picsum placeholder URL when anything
\* in it threw (the function catches every error).
generateImageWithGoogle(providerOk) == IF providerOk THEN "r2" ELSE "picsum"

\* The provider call returns.  The generationId is drawn afterwards; it is
\* unique (time and random), here the number of the request (no).
\* Mutant: the provider call is serialised by waiting until no other request
\* is at its provider call.
GenerateProviderWaiting(r) ==
    /\ req[r].pc = "provider"
    /\ req[r].kind = "generate"
    /\ \A s \in Slots \ {r} : req[s].pc # "provider"
    /\ \E providerOk \in BOOLEAN :
         Continue(r,
           [pc |-> "update", kind |-> "generate", user |-> req[r].user,
            resolution |-> req[r].resolution,
            creditCost |-> req[r].creditCost,
            rupeesCost |-> req[r].rupeesCost,
            rowsBefore |-> req[r].rowsBefore,
            currentBalance |-> req[r].currentBalance,
            providerOk |-> providerOk,
            imageUrl |-> generateImageWithGoogle(providerOk),
            generationId |-> req[r].no,
            newBalance |-> DebitedBalance(req[r].currentBalance,
                                          req[r].rupeesCost)])
    /\ UNCHANGED <<tables, started>>

GenerateProvider(r) ==
    /\ req[r].pc = "provider"
    /\ req[r].kind = "generate"
    /\ \E providerOk \in BOOLEAN :
         Continue(r,
           [pc |-> "update", kind |-> "generate", user |-> req[r].user,
            resolution |-> req[r].resolution,
            creditCost |-> req[r].creditCost,
            rupeesCost |-> req[r].rupeesCost,
            rowsBefore |-> req[r].rowsBefore,
            currentBalance |-> req[r].currentBalance,
            providerOk |-> providerOk,
            imageUrl |-> generateImageWithGoogle(providerOk),
            generationId |-> req[r].no,
            newBalance |-> DebitedBalance(req[r].currentBalance,
                                          req[r].rupeesCost)])
    /\ UNCHANGED <<tables, started>>

\* UPDATE users SET wallet_balance = ? WHERE id = ?
\* Mutant: the UPDATE has no WHERE clause and writes every user's balance.
GenerateUpdateEveryUser(r) ==
    /\ req[r].pc = "update"
    /\ req[r].kind = "generate"
    /\ wallet_balance' = [u \in Users |-> req[r].newBalance]
    /\ Continue(r, [req[r] EXCEPT !.pc = "insert_txn"])
    /\ UNCHANGED <<wallet_transactions, credit_usage, generated_images,
                   user_activities, started>>

GenerateUpdate(r) ==
    /\ req[r].pc = "update"
    /\ req[r].kind = "generate"
    /\ wallet_balance' =
         [wallet_balance EXCEPT ![req[r].user] = req[r].newBalance]
    /\ Continue(r, [req[r] EXCEPT !.pc = "insert_txn"])
    /\ UNCHANGED <<wallet_transactions, credit_usage, generated_images,
                   user_activities, started>>

\* INSERT INTO wallet_transactions (..., 'deduct', ...)
\* Mutant: the row's balance_after is the balance read, not the one written.
GenerateInsertTxnBefore(r) ==
    /\ req[r].pc = "insert_txn"
    /\ req[r].kind = "generate"
    /\ wallet_transactions' = Append(wallet_transactions,
         [user_id |-> req[r].user, type |-> "deduct",
          amount |-> req[r].rupeesCost, credits_added |-> 0,
          balance_after |-> req[r].currentBalance,
          payment_gateway_id |-> "NULL"])
    /\ Continue(r, [req[r] EXCEPT !.pc = "insert_usage"])
    /\ UNCHANGED <<wallet_balance, credit_usage, generated_images,
                   user_activities, started>>

GenerateInsertTxn(r) ==
    /\ req[r].pc = "insert_txn"
    /\ req[r].kind = "generate"
    /\ wallet_transactions' = Append(wallet_transactions,
         [user_id |-> req[r].user, type |-> "deduct",
          amount |-> req[r].rupeesCost, credits_added |-> 0,
          balance_after |-> req[r].newBalance,
          payment_gateway_id |-> "NULL"])
    /\ Continue(r, [req[r] EXCEPT !.pc = "insert_usage"])
    /\ UNCHANGED <<wallet_balance, credit_usage, generated_images,
                   user_activities, started>>

\* INSERT INTO credit_usage
GenerateInsertUsage(r) ==
    /\ req[r].pc = "insert_usage"
    /\ req[r].kind = "generate"
    /\ credit_usage' = credit_usage \cup
         { [user_id |-> req[r].user, generation_id |-> req[r].generationId,
            credits_consumed |-> req[r].creditCost,
            cost_in_rupees |-> req[r].rupeesCost] }
    /\ Continue(r, [req[r] EXCEPT !.pc = "insert_image"])
    /\ UNCHANGED <<wallet_balance, wallet_transactions, generated_images,
                   user_activities, started>>

\* INSERT INTO generated_images, and the response.
GenerateInsertImage(r) ==
    /\ req[r].pc = "insert_image"
    /\ req[r].kind = "generate"
    /\ generated_images' = generated_images \cup
         { [id |-> req[r].generationId, user_id |-> req[r].user,
            credits_used |-> req[r].creditCost] }
    /\ Return(r, [Response("generate", req[r].user, 200, "")
                    EXCEPT !.id = req[r].generationId,
                           !.imageUrl = req[r].imageUrl,
                           !.creditsUsed = req[r].creditCost,
                           !.newBalance = req[r].newBalance])
    /\ UNCHANGED <<wallet_balance, wallet_transactions, credit_usage,
                   user_activities, started>>

\* ----------------------- POST /api/generate (security.ts, DatabaseService)

\* Mutant: the row's amount is the signed amount (no Math.abs).
updateWalletBalanceSigned(userId, amount) ==
    /\ wallet_balance' =
         [wallet_balance EXCEPT ![userId] = wallet_balance[userId] + amount]
    /\ wallet_transactions' = Append(wallet_transactions,
         [user_id |-> userId,
          type |-> IF amount > 0 THEN "topup" ELSE "deduct",
          amount |-> amount,
          credits_added |-> 0,
          balance_after |-> wallet_balance[userId] + amount,
          payment_gateway_id |-> "NULL"])

\* Mutant: the row replaces the user's earlier rows (INSERT OR REPLACE on a
\* table keyed by user) instead of being added.
updateWalletBalanceReplacing(userId, amount) ==
    /\ wallet_balance' =
         [wallet_balance EXCEPT ![userId] = wallet_balance[userId] + amount]
    /\ wallet_transactions' =
         Append(SelectSeq(wallet_transactions,
                          LAMBDA row : row.user_id # userId),
                [user_id |-> userId,
                 type |-> IF amount > 0 THEN "topup" ELSE "deduct",
                 amount |-> IF amount < 0 THEN -amount ELSE amount,
                 credits_added |-> 0,
                 balance_after |-> wallet_balance[userId] + amount,
                 payment_gateway_id |-> "NULL"])

\* DatabaseService.updateWalletBalance(userId, amount, description): one
\* batch, that is one transaction, of
\*   UPDATE users SET wallet_balance = wallet_balance + ?
\*   INSERT INTO wallet_transactions (..., balance_after =
\*       (SELECT wallet_balance FROM users WHERE id = ?))
updateWalletBalance(userId, amount) ==
    /\ wallet_balance' =
         [wallet_balance EXCEPT ![userId] = wallet_balance[userId] + amount]
    /\ wallet_transactions' = Append(wallet_transactions,
         [user_id |-> userId,
          type |-> IF amount > 0 THEN "topup" ELSE "deduct",
          amount |-> IF amount < 0 THEN -amount ELSE amount,
          credits_added |-> 0,
          balance_after |-> wallet_balance[userId] + amount,
          payment_gateway_id |-> "NULL"])

\* Entry: authentication and the cost.  This handler has no check of the
\* number of product images.
Generate2Receive(r) ==
    /\ Accepts(r)
    /\ started < MaxRequests
    /\ started' = started + 1
    /\ \E user \in Users, resolution \in RequestResolutions, n \in ImageCounts :
         LET creditCost == calculateCreditCost(resolution, n) IN
         Continue(r,
           [pc |-> "select", kind |-> "generate2", user |-> user,
            resolution |-> resolution, creditCost |-> creditCost,
            rupeesCost |-> RupeesCost(creditCost),
            rowsBefore |-> Len(RowsOf(user, wallet_transactions)),
                 no |-> started + 1])
    /\ UNCHANGED tables

\* db.getUserStats(user.id) and the balance check.
Generate2Select(r) ==
    /\ req[r].pc = "select"
    /\ req[r].kind = "generate2"
    /\ LET userStats == [wallet_balance |-> wallet_balance[req[r].user]] IN
       IF userStats.wallet_balance < req[r].rupeesCost
       THEN Return(r, [Response("generate2", req[r].user, 400,
                                "Insufficient balance")
                         EXCEPT !.required = req[r].rupeesCost,
                                !.current = userStats.wallet_balance])
       ELSE Continue(r,
              [pc |-> "provider", kind |-> "generate2", user |-> req[r].user,
               resolution |-> req[r].resolution,
               creditCost |-> req[r].creditCost,
               rupeesCost |-> req[r].rupeesCost,
               rowsBefore |-> req[r].rowsBefore, no |-> req[r].no,
               currentBalance |-> userStats.wallet_balance])
    /\ UNCHANGED <<tables, started>>

\* googleAI.generateImage of services/googleAI: returns the image's URL, or
\* throws when the provider fails, and the handler's catch answers 500.
Generate2Provider(r) ==
    /\ req[r].pc = "provider"
    /\ req[r].kind = "generate2"
    /\ \E providerOk \in BOOLEAN :
         IF providerOk
         THEN Continue(r,
                [pc |-> "batch", kind |-> "generate2", user |-> req[r].user,
                 resolution |-> req[r].resolution,
                 creditCost |-> req[r].creditCost,
                 rupeesCost |-> req[r].rupeesCost,
                 rowsBefore |-> req[r].rowsBefore,
                 currentBalance |-> req[r].currentBalance,
                 providerOk |-> providerOk,
                 imageUrl |-> "r2",
                 generationId |-> req[r].no,
                 newBalance |-> req[r].currentBalance - req[r].rupeesCost])
         ELSE Return(r, Response("generate2", req[r].user, 500,
                                 "Generation failed"))
    /\ UNCHANGED <<tables, started>>

\* await db.updateWalletBalance(user.id, -rupeesCost, ...)
Generate2Batch(r) ==
    /\ req[r].pc = "batch"
    /\ req[r].kind = "generate2"
    /\ updateWalletBalance(req[r].user, -req[r].rupeesCost)
    /\ Continue(r, [req[r] EXCEPT !.pc = "insert_image"])
    /\ UNCHANGED <<credit_usage, generated_images, user_activities, started>>

\* INSERT INTO generated_images
Generate2InsertImage(r) ==
    /\ req[r].pc = "insert_image"
    /\ req[r].kind = "generate2"
    /\ generated_images' = generated_images \cup
         { [id |-> req[r].generationId, user_id |-> req[r].user,
            credits_used |-> req[r].creditCost] }
    /\ Continue(r, [req[r] EXCEPT !.pc = "insert_usage"])
    /\ UNCHANGED <<wallet_balance, wallet_transactions, credit_usage,
                   user_activities, started>>

\* INSERT INTO credit_usage
Generate2InsertUsage(r) ==
    /\ req[r].pc = "insert_usage"
    /\ req[r].kind = "generate2"
    /\ credit_usage' = credit_usage \cup
         { [user_id |-> req[r].user, generation_id |-> req[r].generationId,
            credits_consumed |-> req[r].creditCost,
            cost_in_rupees |-> req[r].rupeesCost] }
    /\ Continue(r, [req[r] EXCEPT !.pc = "log_activity"])
    /\ UNCHANGED <<wallet_balance, wallet_transactions, generated_images,
                   user_activities, started>>

\* db.logActivity(user.id, 'image_generated', ...), and the response, whose
\* newBalance is userStats.wallet_balance - rupeesCost.
Generate2LogActivity(r) ==
    /\ req[r].pc = "log_activity"
    /\ req[r].kind = "generate2"
    /\ user_activities' = user_activities \cup
         { [user_id |-> req[r].user, activity_type |-> "image_generated",
            generationId |-> req[r].generationId] }
    /\ Return(r, [Response("generate2", req[r].user, 200, "")
                    EXCEPT !.id = req[r].generationId,
                           !.imageUrl = req[r].imageUrl,
                           !.creditsUsed = req[r].creditCost,
                           !.newBalance = req[r].newBalance])
    /\ UNCHANGED <<wallet_balance, wallet_transactions, credit_usage,
                   generated_images, started>>

\* -------------------------------------- POST /api/webhook/stripe (index.ts)

\* What JSON.parse(payload) yields: an event, or nothing when the payload is
\* not JSON.
Payloads ==
    [type : EventTypes, session : Sessions] \cup {[type |-> "not json"]}

\* Mutant: the handler checks only that the header is there.
SignaturePresent(signature, secret) ==
    /\ signature # NoHeader
    /\ signature # <<>>

\* The handler lets the delivery through to the event handling.
SignatureAccepted(signature, secret) ==
    /\ signature # NoHeader
    /\ signature # <<>>
    /\ verifyStripeSignature(<<>>, signature, secret)

\* const newBalance = currentBalance + amount
CreditedBalance(currentBalance, amount) == currentBalance + amount

\* Entry: the signature header, its verification, JSON.parse and the
\* event's type.  rowsBefore is a history field, as in GenerateReceive.
\* Mutant: the handler credits every event, whatever its type.
AnyEventType(type) == TRUE

\* event.type === 'checkout.session.completed'
CheckoutCompleted(type) == type = "checkout.session.completed"

WebhookReceive(r) ==
    /\ Accepts(r)
    /\ started < MaxRequests
    /\ started' = started + 1
    /\ \E signature \in SignatureHeaders, payload \in Payloads :
         IF signature = NoHeader \/ signature = <<>>
         THEN Return(r, [Response("webhook", "", 400, "No signature header")
                           EXCEPT !.signature = signature])
         ELSE IF ~SignatureAccepted(signature, STRIPE_WEBHOOK_SECRET)
         THEN Return(r, [Response("webhook", "", 400, "Invalid signature")
                           EXCEPT !.signature = signature])
         ELSE IF payload.type = "not json"
         THEN Return(r, [Response("webhook", "", 500,
                                  "Webhook processing failed")
                           EXCEPT !.signature = signature])
         ELSE IF CheckoutCompleted(payload.type)
         THEN LET amount == payload.session.amount_total \div PaisePerRupee IN
              Continue(r,
                [pc |-> "select", kind |-> "webhook",
                 user |-> payload.session.user_id,
                 signature |-> signature,
                 event |-> payload.type,
                 session_id |-> payload.session.id,
                 amount |-> amount,
                 credits |-> creditsFor(amount),
                 rowsBefore |->
                   Len(RowsOf(payload.session.user_id, wallet_transactions))])
         ELSE Return(r, [Response("webhook", "", 200, "")
                           EXCEPT !.signature = signature,
                                  !.received = TRUE,
                                  !.event = payload.type])
    /\ UNCHANGED tables

\* SELECT wallet_balance FROM users WHERE id = ?
WebhookSelect(r) ==
    /\ req[r].pc = "select"
    /\ req[r].kind = "webhook"
    /\ Continue(r,
         [pc |-> "update", kind |-> "webhook", user |-> req[r].user,
          signature |-> req[r].signature,
          session_id |-> req[r].session_id,
          amount |-> req[r].amount, credits |-> req[r].credits,
          rowsBefore |-> req[r].rowsBefore,
          currentBalance |-> wallet_balance[req[r].user],
          newBalance |-> CreditedBalance(wallet_balance[req[r].user],
                                         req[r].amount)])
    /\ UNCHANGED <<tables, started>>

\* UPDATE users SET wallet_balance = ? WHERE id = ?
WebhookUpdate(r) ==
    /\ req[r].pc = "update"
    /\ req[r].kind = "webhook"
    /\ wallet_balance' =
         [wallet_balance EXCEPT ![req[r].user] = req[r].newBalance]
    /\ Continue(r, [req[r] EXCEPT !.pc = "insert_txn"])
    /\ UNCHANGED <<wallet_transactions, credit_usage, generated_images,
                   user_activities, started>>

\* Mutant: payment_gateway_id is unique and the INSERT of a second row with
\* the same reference throws; the handler's catch answers 500.
WebhookInsertUnique(r) ==
    /\ req[r].pc = "insert_txn"
    /\ req[r].kind = "webhook"
    /\ IF \E i \in 1 .. Len(wallet_transactions) :
            wallet_transactions[i].payment_gateway_id = req[r].session_id
       THEN /\ UNCHANGED wallet_transactions
            /\ Return(r, [Response("webhook", req[r].user, 500,
                                   "Webhook processing failed")
                            EXCEPT !.signature = req[r].signature])
       ELSE /\ wallet_transactions' = Append(wallet_transactions,
                 [user_id |-> req[r].user, type |-> "topup",
                  amount |-> req[r].amount, credits_added |-> req[r].credits,
                  balance_after |-> req[r].newBalance,
                  payment_gateway_id |-> req[r].session_id])
            /\ Return(r, [Response("webhook", req[r].user, 200, "")
                            EXCEPT !.signature = req[r].signature,
                                   !.received = TRUE])
    /\ UNCHANGED <<wallet_balance, credit_usage, generated_images,
                   user_activities, started>>

\* INSERT INTO wallet_transactions (..., 'topup', ...), and the response.
WebhookInsert(r) ==
    /\ req[r].pc = "insert_txn"
    /\ req[r].kind = "webhook"
    /\ wallet_transactions' = Append(wallet_transactions,
         [user_id |-> req[r].user, type |-> "topup",
          amount |-> req[r].amount, credits_added |-> req[r].credits,
          balance_after |-> req[r].newBalance,
          payment_gateway_id |-> req[r].session_id])
    /\ Return(r, [Response("webhook", req[r].user, 200, "")
                    EXCEPT !.signature = req[r].signature,
                           !.received = TRUE])
    /\ UNCHANGED <<wallet_balance, credit_usage, generated_images,
                   user_activities, started>>

\* ---------------------------------------------------------- storage errors

\* The positions at which a handler awaits a D1 statement.
AtStorage(r) ==
    req[r].pc \in {"select", "update", "insert_txn", "insert_usage",
                   "insert_image", "batch", "log_activity"}

\* The awaited statement throws (D1 unavailable, a constraint, a timeout):
\* the statement has no effect and the handler's catch answers 500.  A batch
\* is one transaction: when it throws, none of its statements has an effect.
StorageError(r) ==
    /\ AtStorage(r)
    /\ Return(r, [Response(req[r].kind, req[r].user, 500, "storage error")
                    EXCEPT !.signature =
                      IF req[r].kind = "webhook" THEN req[r].signature
                                                 ELSE <<>>])
    /\ UNCHANGED <<tables, started>>

\* ------------------------------------------------------------ specification

\* The handlers' steps of the application of index.ts.
Step(r) ==
    \/ GenerateSelect(r)
    \/ GenerateProvider(r)
    \/ GenerateUpdate(r)
    \/ GenerateInsertTxn(r)
    \/ GenerateInsertUsage(r)
    \/ GenerateInsertImage(r)
    \/ WebhookSelect(r)
    \/ WebhookUpdate(r)
    \/ WebhookInsert(r)
    \/ StorageError(r)

Receive(r) ==
    \/ GenerateReceive(r)
    \/ WebhookReceive(r)

\* The application of index.ts: requests arrive at any time and run
\* concurrently.
Next == \E r \in Slots : Receive(r) \/ Step(r)

Spec == Init /\ [][Next]_vars

\* The same, one request at a time: a request arrives only when none is in
\* flight.
NextSeq == \E r \in Slots : (Quiet /\ Receive(r)) \/ Step(r)

SpecSeq == Init /\ [][NextSeq]_vars

\* Each user has made one payment of 100 rupees before (sessions cs_01 and
\* cs_02, delivered once and handled alone) and has done nothing else.
InitFunded ==
    /\ wallet_balance = [u \in Users |-> 100]
    /\ wallet_transactions =
         << [user_id |-> "u1", type |-> "topup", amount |-> 100,
             credits_added |-> creditsFor(100), balance_after |-> 100,
             payment_gateway_id |-> "cs_01"],
            [user_id |-> "u2", type |-> "topup", amount |-> 100,
             credits_added |-> creditsFor(100), balance_after |-> 100,
             payment_gateway_id |-> "cs_02"] >>
    /\ credit_usage = {}
    /\ generated_images = {}
    /\ user_activities = {}
    /\ req = [r \in Slots |-> Idle]
    /\ response = NoResponse
    /\ started = 0
    /\ LimiterInit

\* The handlers' steps of the application of index.ts while the storage is
\* available: no awaited statement throws.
StepUp(r) ==
    \/ GenerateSelect(r)
    \/ GenerateProvider(r)
    \/ GenerateUpdate(r)
    \/ GenerateInsertTxn(r)
    \/ GenerateInsertUsage(r)
    \/ GenerateInsertImage(r)
    \/ WebhookSelect(r)
    \/ WebhookUpdate(r)
    \/ WebhookInsert(r)

NextUp == \E r \in Slots : Receive(r) \/ StepUp(r)

\* The application of index.ts, requests concurrent, storage available.
SpecUp == Init /\ [][NextUp]_vars

\* The same, from funded wallets.
SpecFunded == InitFunded /\ [][NextUp]_vars

\* The handlers' steps of the application that uses DatabaseService.
StepDb(r) ==
    \/ Generate2Select(r)
    \/ Generate2Provider(r)
    \/ Generate2Batch(r)
    \/ Generate2InsertImage(r)
    \/ Generate2InsertUsage(r)
    \/ Generate2LogActivity(r)
    \/ WebhookSelect(r)
    \/ WebhookUpdate(r)
    \/ WebhookInsert(r)
    \/ StorageError(r)

ReceiveDb(r) ==
    \/ Generate2Receive(r)
    \/ WebhookReceive(r)

NextDb == \E r \in Slots : ReceiveDb(r) \/ StepDb(r)

\* The application that uses DatabaseService.  Its webhook handler is cut
\* off in the source after it has read the event; balances are credited here
\* by the webhook handler of index.ts.
SpecDb == Init /\ [][NextDb]_vars

\* The steps of the generation handler of index.ts: each awaited call
\* returns or throws.
StepGenerate(r) ==
    \/ GenerateSelect(r)
    \/ GenerateProvider(r)
    \/ GenerateUpdate(r)
    \/ GenerateInsertTxn(r)
    \/ GenerateInsertUsage(r)
    \/ GenerateInsertImage(r)
    \/ StorageError(r)

NextGenerate ==
    \E r \in Slots :
       \/ started < MaxLiveRequests /\ GenerateReceive(r)
       \/ StepGenerate(r)

\* Concurrent generation requests of funded users whose awaited calls (the provider, D1) all
\* come back: the runtime resumes a handler whose awaited promise has settled,
\* so a handler's next step is taken when it stays possible.
SpecLive ==
    /\ InitFunded
    /\ [][NextGenerate]_vars
    /\ \A r \in Slots : WF_vars(StepGenerate(r))

\* The steps of the generation handler of security.ts.
StepGenerate2(r) ==
    \/ Generate2Select(r)
    \/ Generate2Provider(r)
    \/ Generate2Batch(r)
    \/ Generate2InsertImage(r)
    \/ Generate2InsertUsage(r)
    \/ Generate2LogActivity(r)

NextPaths ==
    \E r \in Slots :
       \/ Quiet /\ (GenerateReceive(r) \/ Generate2Receive(r))
       \/ StepGenerate(r)
       \/ StepGenerate2(r)

\* Generation requests of funded users, one at a time, each handled by the
\* handler of index.ts or by the one of security.ts.
SpecPaths == InitFunded /\ [][NextPaths]_vars

\* ------------------------------------------- GET /api/users/me (index.ts)

\* The balances the users who have signed in before may have.
SignedInBalances == {0, 100}

\* The users table is keyed by id (migrations/2.sql references users(id)
\* as a foreign key's parent): wallet_balance has one entry per row.  Any
\* subset of the users has signed in before and has a row.
InitUsers ==
    /\ \E signedIn \in SUBSET Users :
         wallet_balance \in [signedIn -> SignedInBalances]
    /\ wallet_transactions = <<>>
    /\ credit_usage = {}
    /\ generated_images = {}
    /\ user_activities = {}
    /\ req = [r \in Slots |-> Idle]
    /\ response = NoResponse
    /\ started = 0
    /\ LimiterInit

\* Entry: the authenticated user.
MeReceive(r) ==
    /\ Accepts(r)
    /\ started < MaxRequests
    /\ started' = started + 1
    /\ \E user \in Users :
         Continue(r, [pc |-> "me_select", kind |-> "me", user |-> user])
    /\ UNCHANGED tables

\* SELECT * FROM users WHERE id = ?, and the test results.length === 0
MeSelect(r) ==
    /\ req[r].pc = "me_select"
    /\ LET results == DOMAIN wallet_balance \cap {req[r].user} IN
       Continue(r, [req[r] EXCEPT
                      !.pc = IF results = {} THEN "me_insert" ELSE "me_stats"])
    /\ UNCHANGED <<tables, started>>

\* INSERT INTO users (id, ..., wallet_balance, ...) VALUES (?, ..., 0, ...):
\* when a row with the id is there the statement throws (the key's
\* constraint) and the handler's catch answers 500.
MeInsert(r) ==
    /\ req[r].pc = "me_insert"
    /\ IF req[r].user \in DOMAIN wallet_balance
       THEN /\ Return(r, Response("me", req[r].user, 500,
                                  "Failed to get user information"))
            /\ UNCHANGED wallet_balance
       ELSE /\ wallet_balance' = wallet_balance @@ (req[r].user :> 0)
            /\ Continue(r, [req[r] EXCEPT !.pc = "me_stats"])
    /\ UNCHANGED <<wallet_transactions, credit_usage, generated_images,
                   user_activities, started>>

\* SELECT * FROM users WHERE id = ?, and the response; its walletBalance is
\* carried in the field current.
MeStats(r) ==
    /\ req[r].pc = "me_stats"
    /\ Return(r, [Response("me", req[r].user, 200, "")
                    EXCEPT !.current = wallet_balance[req[r].user]])
    /\ UNCHANGED <<tables, started>>

NextUsers ==
    \E r \in Slots : MeReceive(r) \/ MeSelect(r) \/ MeInsert(r) \/ MeStats(r)

\* GET /api/users/me of index.ts, called concurrently, with the storage
\* available: a statement throws only on a constraint.
SpecUsers == InitUsers /\ [][NextUsers]_vars

\* ------------------------------------ DatabaseService.updateWalletBalance

\* The amounts updateWalletBalance is called with: credits, debits and zero.
Deltas == (0 - MaxDelta) .. MaxDelta

\* A caller is about to await db.updateWalletBalance(userId, amount, ...).
\* balanceBefore and rowsBefore are history fields.
LedgerCall(r) ==
    /\ Accepts(r)
    /\ started < MaxRequests
    /\ started' = started + 1
    /\ \E user \in Users, amount \in Deltas :
         Continue(r, [pc |-> "ledger", kind |-> "ledger", user |-> user,
                      amount |-> amount,
                      balanceBefore |-> wallet_balance[user],
                      rowsBefore |-> Len(wallet_transactions)])
    /\ UNCHANGED tables

\* The batch runs, and the caller goes on.
LedgerBatch(r) ==
    /\ req[r].pc = "ledger"
    /\ updateWalletBalance(req[r].user, req[r].amount)
    /\ Return(r, NoResponse)
    /\ UNCHANGED <<credit_usage, generated_images, user_activities, started>>

NextLedger == \E r \in Slots : (Quiet /\ LedgerCall(r)) \/ LedgerBatch(r)

\* Calls of updateWalletBalance, one at a time, with every amount.
SpecLedger == Init /\ [][NextLedger]_vars

\* ---------------------------------------- rateLimitByUser (security.ts)

\* c.get('user') of a request that carries no user.
NoUser == ""

\* The time that passes between two requests: a millisecond, or a window.
Elapsed == {1, windowMs}

\* Mutant: the limit is reached only above maxAttempts.
LimitExceeded(record) == record.count > maxAttempts

\* record.count >= maxAttempts
LimitReached(record) == record.count >= maxAttempts

\* !record || now > record.resetTime
NoOpenWindow(key) ==
    key \notin DOMAIN attempts \/ now > attempts[key].resetTime

\* map.set(key, value)
MapSet(map, key, value) ==
    [k \in DOMAIN map \cup {key} |-> IF k = key THEN value ELSE map[k]]

\* await next(): the handler runs and answers; its answer is not modelled
\* here.  The history records the request: it opens a window when the user
\* has none that covers now, and is counted in the open window otherwise.
LetThrough(user) ==
    /\ response' = Response("limit", user, 200, "")
    /\ admitted' =
         IF user = NoUser THEN admitted
         ELSE IF user \in DOMAIN admitted
                 /\ now <= admitted[user].since + windowMs
         THEN MapSet(admitted, user,
                     [since |-> admitted[user].since,
                      n |-> admitted[user].n + 1])
         ELSE MapSet(admitted, user, [since |-> now, n |-> 1])

\* One request passes the middleware, which has no await before next().
RateLimitRequest ==
    /\ \E user \in Users \cup {NoUser} :
         IF user = NoUser
         THEN /\ LetThrough(user)
              /\ UNCHANGED attempts
         ELSE IF NoOpenWindow(user)
         THEN /\ attempts' = MapSet(attempts, user,
                    [count |-> 1, resetTime |-> now + windowMs])
              /\ LetThrough(user)
         ELSE IF LimitReached(attempts[user])
         THEN /\ response' = Response("limit", user, 429,
                                      "Rate limit exceeded")
              /\ UNCHANGED <<attempts, admitted>>
         ELSE /\ attempts' = MapSet(attempts, user,
                    [count |-> attempts[user].count + 1,
                     resetTime |-> attempts[user].resetTime])
              /\ LetThrough(user)
    /\ UNCHANGED <<tables, req, started, now>>

\* Time passes.
Tick ==
    /\ (now \div windowMs) + (now % windowMs) < MaxTicks
    /\ \E d \in Elapsed : now' = now + d
    /\ response' = NoResponse
    /\ UNCHANGED <<tables, req, started, attempts, admitted>>

NextLimit == RateLimitRequest \/ Tick

\* The requests of the route POST /api/generate at its rate limiter.
SpecLimit == Init /\ [][NextLimit]_vars

\* ----------------------------------------------- the computations, alone

\* Payment amounts (rupees) a checkout is created for.
Amounts == 0 .. MaxAmount

\* The cost computation of POST /api/generate for a request that carries
\* at least one product image:
\*   const creditCost = calculateCreditCost(resolution, productImages.length)
\*   const rupeesCost = creditCost * 25
CostCall(r) ==
    /\ Accepts(r)
    /\ \E resolution \in Resolutions, n \in 1 .. MaxImages :
         LET creditCost == calculateCreditCost(resolution, n) IN
         Continue(r, [pc |-> "cost", kind |-> "cost",
                      resolution |-> resolution, images |-> n,
                      creditCost |-> creditCost,
                      rupeesCost |-> RupeesCost(creditCost)])
    /\ UNCHANGED <<tables, started>>

\* The bonus computation of StripeService.createCheckoutSession:
\*   const bonusCredits = this.calculateBonusCredits(params.amount)
BonusCall(r) ==
    /\ Accepts(r)
    /\ \E amount \in Amounts :
         Continue(r, [pc |-> "bonus", kind |-> "bonus", amount |-> amount,
                      bonusCredits |-> calculateBonusCredits(amount)])
    /\ UNCHANGED <<tables, started>>

\* The computation's caller goes on.
CallReturn(r) ==
    /\ req[r].pc \in {"cost", "bonus"}
    /\ Return(r, NoResponse)
    /\ UNCHANGED <<tables, started>>

NextCalc ==
    \E r \in Slots : (Quiet /\ (CostCall(r) \/ BonusCall(r))) \/ CallReturn(r)

\* The cost and bonus computations, one call at a time, over every
\* resolution, image count and amount.
SpecCalc == Init /\ [][NextCalc]_vars

\* ------------------------------------------------------------------ claims

\* The signed amount of a ledger row: topup and bonus add, deduct subtracts.
Signed(row) == IF row.type \in {"topup", "bonus"} THEN row.amount ELSE -row.amount

RECURSIVE SumSigned(_)
SumSigned(rows) ==
    IF rows = <<>> THEN 0 ELSE Signed(Head(rows)) + SumSigned(Tail(rows))

InFlight(r, kind) == req[r].pc # "idle" /\ req[r].kind = kind

\* The ledger rows that carry gateway reference id.
RowsWithGateway(id, rows) ==
    SelectSeq(rows, LAMBDA row : row.payment_gateway_id = id)

\* C1: whenever no request is in flight, every user's wallet_balance equals
\* the sum of the signed amounts of the user's ledger rows.
C1_BalanceIsLedgerSum ==
    Quiet => \A u \in Users :
               wallet_balance[u] = SumSigned(RowsOf(u, wallet_transactions))

\* C2: a delivery of a payment event whose gateway reference is already in
\* the ledger changes neither the balance nor the ledger (deliveries handled
\* one after the other).
C2_RedeliveryIsNoOp ==
    [][\A r \in Slots :
         ( /\ InFlight(r, "webhook")
           /\ Len(RowsWithGateway(req[r].session_id, wallet_transactions)) > 0
           /\ req'[r].pc # req[r].pc )
         => /\ wallet_balance' = wallet_balance
            /\ wallet_transactions' = wallet_transactions]_vars

\* The request has passed its balance check.
Checked(r) ==
    req[r].pc \in {"provider", "update", "insert_txn", "insert_usage",
                   "insert_image"}

\* The request has written its debit to wallet_balance.
Debited(r) == req[r].pc \in {"insert_txn", "insert_usage", "insert_image"}

\* C3: of two concurrent generation requests of one user that read the same
\* balance, which covers each cost alone but not both, and whose provider
\* calls both succeed, at most one debits.
C3_OneOfTwoDebits ==
    \A r, s \in Slots :
      ( /\ r # s
        /\ InFlight(r, "generate") /\ InFlight(s, "generate")
        /\ Checked(r) /\ Checked(s)
        /\ req[r].user = req[s].user
        /\ req[r].currentBalance = req[s].currentBalance
        /\ req[r].rupeesCost + req[s].rupeesCost > req[r].currentBalance )
      => ~(Debited(r) /\ Debited(s) /\ req[r].providerOk /\ req[s].providerOk)

\* C4: no step of a generation request whose provider call failed changes
\* a table.
C4_FailedGenerationChangesNothing ==
    [][\A r \in Slots :
         ( /\ InFlight(r, "generate")
           /\ req[r].pc \in {"update", "insert_txn", "insert_usage",
                             "insert_image"}
           /\ ~req[r].providerOk
           /\ req'[r].pc # req[r].pc )
         => UNCHANGED tables]_vars

\* C5: a debit through updateWalletBalance of more than the user's current
\* balance changes neither the balance nor the ledger.
C5_OverdrawingDebitChangesNothing ==
    [][\A r \in Slots :
         ( /\ InFlight(r, "generate2")
           /\ req[r].pc = "batch"
           /\ req[r].rupeesCost > wallet_balance[req[r].user]
           /\ req'[r].pc # req[r].pc )
         => /\ wallet_balance' = wallet_balance
            /\ wallet_transactions' = wallet_transactions]_vars

\* C6: when a request that runs alone returns, its user's balance differs
\* from the balance the request read exactly when the user's ledger has a
\* new row: the balance change and the ledger row are both there or neither.
C6_BalanceAndRowTogether ==
    [][\A r \in Slots :
         ( /\ req[r].pc \in {"update", "insert_txn", "insert_usage",
                             "insert_image"}
           /\ req'[r].pc = "idle" )
         => LET u == req[r].user IN
            (wallet_balance'[u] # req[r].currentBalance)
              <=> (Len(RowsOf(u, wallet_transactions')) # req[r].rowsBefore)
      ]_vars

\* The signature header is missing or does not verify.
BadSignature(signature) ==
    \/ signature = NoHeader
    \/ ~verifyStripeSignature(<<>>, signature, STRIPE_WEBHOOK_SECRET)

C8_OneCreditPerGatewayReference ==
    [][ /\ \A session \in Sessions :
             Len(RowsWithGateway(session.id, wallet_transactions')) <= 1
        /\ \A r, s \in Slots :
             ( /\ r # s
               /\ InFlight(r, "webhook") /\ InFlight(s, "webhook")
               /\ req[r].session_id = req[s].session_id
               /\ req[s].pc = "insert_txn"
               /\ req[r].pc = "update"
               /\ req'[r].pc = "insert_txn" )
             => wallet_balance'[req[r].user] = wallet_balance[req[r].user]
      ]_vars

\* C9: when a delivery of a payment of 1000 or more, handled alone, is
\* answered with success, the user's ledger has two new rows, a topup of the
\* amount and a bonus, and the balance has grown by more than the amount.
C9_BonusRow ==
    [][\A r \in Slots :
         ( /\ InFlight(r, "webhook")
           /\ req[r].pc = "insert_txn"
           /\ req[r].amount >= 1000
           /\ req'[r].pc = "idle"
           /\ response'.status = 200 )
         => LET rows == RowsOf(req[r].user, wallet_transactions') IN
            /\ Len(rows) = req[r].rowsBefore + 2
            /\ \E i, j \in (req[r].rowsBefore + 1) .. Len(rows) :
                 /\ rows[i].type = "topup" /\ rows[i].amount = req[r].amount
                 /\ rows[j].type = "bonus"
            /\ wallet_balance'[req[r].user]
                 > req[r].currentBalance + req[r].amount ]_vars

\* C10: a generation request that runs alone reads the user's balance b;
\* when the provider succeeded and the request is answered 200, the balance
\* is b - 25 * creditCost, the response's newBalance is the same, and the
\* user's ledger has exactly one new row: deduct, 25 * creditCost, with
\* balance_after b - 25 * creditCost.
C10_SequentialDebit ==
    [][\A r \in Slots :
         /\ ( /\ req'[r].pc \in {"provider", "update"}
              /\ req'[r].kind = "generate" )
            => req'[r].currentBalance = wallet_balance'[req'[r].user]
         /\ ( /\ InFlight(r, "generate")
              /\ req[r].pc = "insert_image"
              /\ req[r].providerOk
              /\ req'[r].pc = "idle"
              /\ response'.status = 200 )
            => LET u == req[r].user
                   b == req[r].currentBalance
                   cost == 25 * req[r].creditCost
                   rows == RowsOf(u, wallet_transactions')
               IN /\ b >= cost
                  /\ wallet_balance'[u] = b - cost
                  /\ response'.newBalance = b - cost
                  /\ Len(rows) = req[r].rowsBefore + 1
                  /\ rows[Len(rows)].type = "deduct"
                  /\ rows[Len(rows)].amount = cost
                  /\ rows[Len(rows)].balance_after = b - cost ]_vars

\* Balance 100, resolution 1920x1080 (2 credits): the request was answered
\* with newBalance 50 and the balance is 50, with a deduct row of 50.
C10_Witness ==
    /\ response.kind = "generate"
    /\ response.status = 200
    /\ response.imageUrl = "r2"
    /\ response.creditsUsed = 2
    /\ response.newBalance = 50
    /\ wallet_balance[response.user] = 50
    /\ LET rows == RowsOf(response.user, wallet_transactions) IN
       /\ Len(rows) = 2
       /\ rows[2].type = "deduct" /\ rows[2].amount = 50
       /\ rows[2].balance_after = 50

C12_BonusTiers ==
    \A r \in Slots :
      req[r].pc = "bonus" =>
        LET amount == req[r].amount
            bonusCredits == req[r].bonusCredits
        IN /\ amount >= 5000 => bonusCredits = 50
           /\ (2500 <= amount /\ amount < 5000) => bonusCredits = 15
           /\ (1000 <= amount /\ amount < 2500) => bonusCredits = 5
           /\ amount < 1000 => bonusCredits = 0
           /\ bonusCredits <= calculateBonusCredits(amount + 1)
           /\ \A plan \in PAYMENT_PLANS :
                plan.amount = amount => bonusCredits = ShownBonus(plan)

\* The bonus of the 1000 plan, at the lower edge of its tier: 5.
C12_Witness ==
    \E r \in Slots :
      /\ req[r].pc = "bonus"
      /\ req[r].amount = 1000
      /\ req[r].bonusCredits = 5
      /\ [amount |-> 1000, credits |-> 40, bonus |-> 5] \in PAYMENT_PLANS

\* C13: every call of GET /api/users/me is answered 200 and leaves a row
\* for its user, and no step of a call changes the wallet_balance of a user
\* who has a row.
C13_EnsureUserIdempotent ==
    [][\A r \in Slots :
         ( /\ InFlight(r, "me")
           /\ req'[r].pc # req[r].pc )
         => /\ \A u \in DOMAIN wallet_balance :
                 /\ u \in DOMAIN wallet_balance'
                 /\ wallet_balance'[u] = wallet_balance[u]
            /\ req'[r].pc = "idle"
                 => /\ response'.status = 200
                    /\ req[r].user \in DOMAIN wallet_balance' ]_vars

\* The user's ledger rows of type deduct.
DeductRows(user) ==
    SelectSeq(RowsOf(user, wallet_transactions),
              LAMBDA row : row.type = "deduct")

\* C14: whenever no request is in flight, also after a request whose storage
\* write failed, every user has as many generated_images records and as
\* many credit_usage records as deduct ledger rows.
C14_RecordsPerDebit ==
    Quiet => \A u \in Users :
               LET debits == Len(DeductRows(u)) IN
               /\ Cardinality({g \in generated_images : g.user_id = u}) = debits
               /\ Cardinality({c \in credit_usage : c.user_id = u}) = debits

\* s is a prefix of t.
IsPrefix(s, t) == Len(s) <= Len(t) /\ SubSeq(t, 1, Len(s)) = s

\* C15: in every step the ledger, and each user's ledger, of the next state
\* has the one of the current state as a prefix: rows are only added, at the
\* end, and no row is changed or removed.
C15_LedgerAppendOnly ==
    [][ /\ IsPrefix(wallet_transactions, wallet_transactions')
        /\ \A u \in Users :
             IsPrefix(RowsOf(u, wallet_transactions),
                      RowsOf(u, wallet_transactions')) ]_vars

\* A user's ledger holds a topup row followed by the deduct row of a
\* generation debited through updateWalletBalance.
C15_Witness ==
    \E u \in Users :
      LET rows == RowsOf(u, wallet_transactions) IN
      /\ Len(rows) >= 2
      /\ rows[1].type = "topup"
      /\ rows[Len(rows)].type = "deduct"
      /\ rows[Len(rows)].balance_after = wallet_balance[u]

\* C16: while the storage is available, a delivery of a payment event whose
\* gateway reference is already in the ledger is answered 200 with
\* received: true.
C16_DuplicateAnsweredWithSuccess ==
    [][\A r \in Slots :
         ( /\ InFlight(r, "webhook")
           /\ Len(RowsWithGateway(req[r].session_id, wallet_transactions)) > 0
           /\ req'[r].pc = "idle" )
         => /\ response'.kind = "webhook"
            /\ response'.status = 200
            /\ response'.received ]_vars

\* A second delivery of a session was answered with success: the ledger
\* holds two rows with the session's reference.
C16_Witness ==
    /\ response.kind = "webhook"
    /\ response.status = 200
    /\ response.received
    /\ \E session \in Sessions :
         /\ session.user_id = response.user
         /\ Len(RowsWithGateway(session.id, wallet_transactions)) = 2

\* C17: a step of a generation request that changes wallet_balance or the
\* ledger is taken after the request's provider call has returned its
\* result (the request holds the image URL): it is the UPDATE or the INSERT
\* of the deduct row, never the balance read or the provider call.
C17_DebitAfterProvider ==
    [][\A r \in Slots :
         ( /\ InFlight(r, "generate")
           /\ req'[r].pc # req[r].pc
           /\ \/ wallet_balance' # wallet_balance
              \/ wallet_transactions' # wallet_transactions )
         => /\ req[r].pc \in {"update", "insert_txn"}
            /\ "imageUrl" \in DOMAIN req[r]
            /\ req[r].imageUrl \in {"r2", "picsum"} ]_vars

\* A request whose provider call returned an image has written its debit
\* and is about to insert its deduct row.
C17_Witness ==
    \E r \in Slots :
      /\ InFlight(r, "generate")
      /\ req[r].pc = "insert_txn"
      /\ req[r].imageUrl = "r2"
      /\ wallet_balance[req[r].user] = req[r].newBalance
      /\ req[r].newBalance = req[r].currentBalance - req[r].rupeesCost

\* C18: while the storage is available, the step in which a generation
\* request reads a balance lower than its rupee cost answers 400
\* "Insufficient wallet balance" with required = the cost and current = the
\* balance read, ends the request and changes no table; and no request that
\* has gone on to the provider call or the writes has read a balance lower
\* than its cost.
C18_InsufficientBalanceRejected ==
    [][\A r \in Slots :
         /\ ( /\ req'[r].pc # "idle"
              /\ req'[r].kind = "generate"
              /\ req'[r].pc # "select" )
            => req'[r].currentBalance >= req'[r].rupeesCost
         /\ ( /\ InFlight(r, "generate")
              /\ req[r].pc = "select"
              /\ wallet_balance[req[r].user] < req[r].rupeesCost
              /\ req'[r].pc # req[r].pc )
            => /\ req'[r].pc = "idle"
               /\ response'.kind = "generate"
               /\ response'.status = 400
               /\ response'.error = "Insufficient wallet balance"
               /\ response'.required = req[r].rupeesCost
               /\ response'.current = wallet_balance[req[r].user]
               /\ UNCHANGED tables ]_vars

\* A request for 2560x1440 (75 rupees) read balance 50 and was answered
\* 400 with required 75 and current 50.
C18_Witness ==
    /\ response.kind = "generate"
    /\ response.status = 400
    /\ response.error = "Insufficient wallet balance"
    /\ response.required = 75
    /\ response.current = 50
    /\ wallet_balance[response.user] = 50

\* C19: when a generation request whose provider call succeeded writes its
\* debit after a payment top-up of its user was applied in full (no delivery
\* for the user is in flight) since the request read the balance, the
\* balance after the write is the balance before it minus the cost: the
\* top-up is kept.
C19_TopUpNotLost ==
    [][\A r \in Slots :
         ( /\ InFlight(r, "generate")
           /\ req[r].pc = "update"
           /\ req'[r].pc = "insert_txn"
           /\ req[r].providerOk
           /\ wallet_balance[req[r].user] > req[r].currentBalance
           /\ \A s \in Slots :
                ~(InFlight(s, "webhook") /\ req[s].user = req[r].user) )
         => wallet_balance'[req[r].user]
              = wallet_balance[req[r].user] - req[r].rupeesCost ]_vars

\* The gateway references of the ledger rows and of the deliveries in
\* flight, one entry per row and per delivery.
References ==
    [i \in 1 .. Len(wallet_transactions) |->
       wallet_transactions[i].payment_gateway_id]
    \o [r \in Slots |->
         IF InFlight(r, "webhook") THEN req[r].session_id ELSE "NULL"]

\* Every payment is delivered once: no gateway reference occurs twice.
DeliveredOnce ==
    \A i, j \in 1 .. Len(References) :
      (i # j /\ References[i] # "NULL") => References[i] # References[j]

\* No generation request in flight has had its provider call fail.
ProviderCallsSucceeded ==
    \A r \in Slots :
      (InFlight(r, "generate") /\ "providerOk" \in DOMAIN req[r])
        => req[r].providerOk

\* C20: while every payment is delivered once and the provider calls
\* succeed, for consecutive rows of one user in creation order,
\* balance_after of a row is balance_after of the row before plus the row's
\* signed amount, under every interleaving of the requests.
C20_BalanceAfterChain ==
    (DeliveredOnce /\ ProviderCallsSucceeded)
    => \A u \in Users :
         LET rows == RowsOf(u, wallet_transactions) IN
         \A i \in 2 .. Len(rows) :
           rows[i].balance_after = rows[i - 1].balance_after + Signed(rows[i])

\* C21: the wallet_balance of every user is >= 0 in every reachable state.
C21_BalanceNeverNegative ==
    \A u \in Users : wallet_balance[u] >= 0

\* C22: a generation request with zero product images is answered 400 by
\* the step that receives it, which changes no table, and it never gets to
\* the cost computation and the balance read: every request in flight
\* carries at least one image.
C22_ZeroImagesRejected ==
    [][ /\ \A r \in Slots :
             ( /\ req'[r].pc = "select"
               /\ req'[r].kind = "generate" )
             => req'[r].images >= 1
        /\ ( /\ response'.kind = "generate"
             /\ response'.error = "At least one product image is required" )
           => /\ response'.status = 400
              /\ UNCHANGED tables
              /\ \E r \in Slots : Free(r) /\ req'[r] = req[r] ]_vars

\* A request without product images of a user whose balance is 100 was
\* answered 400.
C22_Witness ==
    /\ response.kind = "generate"
    /\ response.status = 400
    /\ response.error = "At least one product image is required"
    /\ wallet_balance[response.user] = 100

\* C23: right after the debit of a generation request (the UPDATE of
\* index.ts, the batch of updateWalletBalance) the user's stored
\* wallet_balance is the newBalance the request returns when it succeeds,
\* whatever other requests have written since the request read the balance.
C23_ReturnedBalanceIsStored ==
    [][\A r \in Slots :
         ( /\ \/ InFlight(r, "generate") /\ req[r].pc = "update"
              \/ InFlight(r, "generate2") /\ req[r].pc = "batch"
           /\ req[r].providerOk
           /\ req'[r].pc # req[r].pc
           /\ wallet_balance' # wallet_balance )
         => wallet_balance'[req[r].user] = req[r].newBalance ]_vars

\* C24: every ledger row has amount >= 0, and the row a call of
\* updateWalletBalance(userId, delta) appends has amount |delta|, type topup
\* exactly when delta > 0 and deduct otherwise, and a signed amount equal to
\* delta, which is the change of the user's wallet_balance.
C24_RowRecordsDelta ==
    [][ /\ \A i \in 1 .. Len(wallet_transactions') :
             wallet_transactions'[i].amount >= 0
        /\ \A r \in Slots :
             ( /\ InFlight(r, "ledger")
               /\ req'[r].pc = "idle" )
             => LET delta == req[r].amount
                    row == wallet_transactions'[Len(wallet_transactions')]
                IN /\ Len(wallet_transactions') = Len(wallet_transactions) + 1
                   /\ row.user_id = req[r].user
                   /\ row.amount = (IF delta < 0 THEN 0 - delta ELSE delta)
                   /\ (row.type = "topup") <=> (delta > 0)
                   /\ (row.type = "deduct") <=> ~(delta > 0)
                   /\ Signed(row) = delta
                   /\ wallet_balance'[req[r].user]
                        = wallet_balance[req[r].user] + delta
                   /\ row.balance_after = wallet_balance'[req[r].user] ]_vars

\* The ledger holds the row of a debit (delta < 0), the row of a credit and
\* the row of a call with delta 0.
C24_Witness ==
    /\ Len(wallet_transactions) = 3
    /\ wallet_transactions[1].type = "deduct"
    /\ wallet_transactions[1].amount = 2
    /\ wallet_transactions[1].balance_after = 0 - 2
    /\ wallet_transactions[2].type = "topup"
    /\ wallet_transactions[2].amount = 3
    /\ wallet_transactions[3].type = "deduct"
    /\ wallet_transactions[3].amount = 0

\* C25: when the provider call and the storage calls come back, every
\* generation request in flight eventually returns its response, whatever
\* the other requests do.
C25_EveryRequestReturns ==
    \A r \in Slots : InFlight(r, "generate") ~> Free(r)

\* A generation request returns its 200 while another one is in flight
\* past its provider call.
C25_Witness ==
    /\ response.kind = "generate"
    /\ response.status = 200
    /\ \E s \in Slots : InFlight(s, "generate") /\ req[s].pc = "update"

\* The balance or the ledger rows of user v change in this step.
WalletChanges(v) ==
    \/ wallet_balance'[v] # wallet_balance[v]
    \/ RowsOf(v, wallet_transactions') # RowsOf(v, wallet_transactions)

\* The generation records of user v change in this step.
RecordsChange(v) ==
    \/ {x \in credit_usage' : x.user_id = v}
         # {x \in credit_usage : x.user_id = v}
    \/ {x \in generated_images' : x.user_id = v}
         # {x \in generated_images : x.user_id = v}

\* The request in slot r takes a step.
Steps(r) == req[r].pc # "idle" /\ req'[r] # req[r]

\* C26: a step changes the balance, ledger rows or generation records of a
\* user v only if it is a step of a generation request authenticated as v or
\* of a payment event whose metadata names v; a payment event changes no
\* generation record; and rows already written are not changed.
C26_OnlyOwnState ==
    [][ /\ \A v \in Users :
             (WalletChanges(v) \/ RecordsChange(v))
             => \E r \in Slots :
                  /\ Steps(r)
                  /\ req[r].user = v
                  /\ req[r].kind \in {"generate", "webhook"}
                  /\ req[r].kind = "webhook" => ~RecordsChange(v)
        /\ IsPrefix(wallet_transactions, wallet_transactions') ]_vars

\* u1 was credited 100 and debited 50 by a generation, u2 was credited 1000,
\* and each user's rows are their own.
C26_Witness ==
    /\ wallet_balance["u1"] = 50
    /\ wallet_balance["u2"] = 1000
    /\ Len(RowsOf("u1", wallet_transactions)) = 2
    /\ Len(RowsOf("u2", wallet_transactions)) = 1

\* C27: a correctly signed event whose type is not
\* checkout.session.completed is answered 200 with received: true in a step
\* that changes no table, and no such event reaches the statements that
\* credit a balance.
C27_OtherEventsOnlyAcknowledged ==
    [][ /\ \A r \in Slots :
             (req'[r].pc = "select" /\ req'[r].kind = "webhook")
             => req'[r].event = "checkout.session.completed"
        /\ ( /\ response'.kind = "webhook"
             /\ response'.event \in EventTypes \ {"checkout.session.completed"}
             /\ SignatureAccepted(response'.signature, STRIPE_WEBHOOK_SECRET) )
           => /\ response'.status = 200
              /\ response'.received
              /\ UNCHANGED tables
              /\ \E r \in Slots : Free(r) /\ req'[r] = req[r] ]_vars

\* A payment_intent.succeeded event is acknowledged while u1 holds a credited
\* balance, which stays as it is.
C27_Witness ==
    /\ response.kind = "webhook"
    /\ response.event = "payment_intent.succeeded"
    /\ response.received
    /\ wallet_balance["u1"] = 100
    /\ Len(wallet_transactions) = 1

\* The last step let a request of user through to the handler.
Passes(user) ==
    /\ response'.kind = "limit"
    /\ response'.status = 200
    /\ response'.user = user

\* C28: no user has more than maxAttempts requests let through in one
\* window; a 429 goes to a user whose record has count >= maxAttempts and a
\* resetTime not yet passed, and leaves every counter unchanged; a user in
\* that position is not let through; the first request after resetTime is
\* let through and sets count 1 and a new resetTime; a request changes no
\* other user's record; a request without a user is let through and changes
\* no record.
C28_TenPerWindow ==
    [][ /\ \A u \in DOMAIN admitted' : admitted'[u].n <= maxAttempts
        /\ (response'.kind = "limit" /\ response'.status = 429)
           => /\ response'.user \in DOMAIN attempts
              /\ attempts[response'.user].count >= maxAttempts
              /\ now <= attempts[response'.user].resetTime
              /\ attempts' = attempts
        /\ \A u \in Users :
             Passes(u)
             => /\ \A v \in DOMAIN attempts \ {u} :
                     v \in DOMAIN attempts' /\ attempts'[v] = attempts[v]
                /\ (u \in DOMAIN attempts /\ now <= attempts[u].resetTime)
                   => /\ attempts[u].count < maxAttempts
                      /\ attempts'[u].count = attempts[u].count + 1
                      /\ attempts'[u].resetTime = attempts[u].resetTime
                /\ (u \in DOMAIN attempts /\ now > attempts[u].resetTime)
                   => attempts'[u] = [count |-> 1,
                                      resetTime |-> now + windowMs]
        /\ Passes(NoUser) => attempts' = attempts
        /\ ~(response'.kind = "limit" /\ response'.status = 429
             /\ response'.user = NoUser) ]_vars

\* u1's eleventh request of a window is answered 429 at the window's last
\* millisecond, while u2, in a later window of their own, has count 1.
C28_Witness ==
    /\ response.kind = "limit"
    /\ response.status = 429
    /\ response.user = "u1"
    /\ "u1" \in DOMAIN attempts
    /\ attempts["u1"].count = maxAttempts
    /\ now = attempts["u1"].resetTime
    /\ "u2" \in DOMAIN attempts
    /\ attempts["u2"].count = 1
    /\ attempts["u2"].resetTime > attempts["u1"].resetTime

\* The ledger rows of user u that debit, reduced to type, amount and
\* balance_after.
DebitsOf(u) ==
    LET rows == SelectSeq(wallet_transactions,
                  LAMBDA row : row.user_id = u /\ row.type = "deduct")
    IN [i \in 1 .. Len(rows) |->
          [type |-> rows[i].type, amount |-> rows[i].amount,
           balance_after |-> rows[i].balance_after]]

\* The request in slot r is about to write the debited balance.
WritesBalance(r) ==
    \/ InFlight(r, "generate") /\ req[r].pc = "update"
    \/ InFlight(r, "generate2") /\ req[r].pc = "batch"

\* The request in slot r is about to write the ledger row of its debit.
WritesRow(r) ==
    \/ InFlight(r, "generate") /\ req[r].pc = "insert_txn"
    \/ InFlight(r, "generate2") /\ req[r].pc = "batch"

\* The statement the request in slot r awaits succeeds.
Proceeds(r) == req'[r].pc # req[r].pc /\ req'[r].pc # "idle"

\* C29: with one request at a time, a debit of cost c by the handler of
\* index.ts (absolute write, then INSERT) and one through
\* updateWalletBalance (batch) both take exactly c from the balance the user
\* has when the write runs, and both append the row (deduct, c, balance
\* after the write).
C29_SameDebitOnBothPaths ==
    [][\A r \in Slots :
         /\ (WritesBalance(r) /\ Proceeds(r))
            => /\ wallet_balance'[req[r].user]
                    = wallet_balance[req[r].user] - req[r].rupeesCost
               /\ \A v \in Users \ {req[r].user} :
                    wallet_balance'[v] = wallet_balance[v]
         /\ (WritesRow(r) /\ Proceeds(r))
            => LET row == wallet_transactions'[Len(wallet_transactions')] IN
               /\ Len(wallet_transactions') = Len(wallet_transactions) + 1
               /\ row.user_id = req[r].user
               /\ row.type = "deduct"
               /\ row.amount = req[r].rupeesCost
               /\ row.balance_after = wallet_balance'[req[r].user] ]_vars

\* u1 was debited by the handler of index.ts and u2, from the same balance
\* and at the same cost, through updateWalletBalance (only that handler
\* logs an activity): balances and rows agree.
C29_Witness ==
    /\ Quiet
    /\ \E x \in generated_images : x.user_id = "u1"
    /\ \A x \in user_activities : x.user_id = "u2"
    /\ \E x \in user_activities : x.user_id = "u2"
    /\ Len(DebitsOf("u1")) = 1
    /\ DebitsOf("u1") = DebitsOf("u2")
    /\ wallet_balance["u1"] = wallet_balance["u2"]

====
